---- MODULE Spec2Model ----
(***************************************************************************)
(* Model of backend/app/main.py of ScopeX: the MCP server table, the       *)
(* reload of the chat agent's tool set (update_agent_tools) and the        *)
(* endpoints that trigger or observe it.                                   *)
(*                                                                         *)
(* Handlers are coroutines on one event loop.  A handler runs atomically   *)
(* from one suspension point to the next; the only suspension point of a   *)
(* handler in this file is `await mcp_tools.connect()` (line 174).         *)
(***************************************************************************)
EXTENDS Integers, Sequences, FiniteSets, TLC

\* ----- bounds -----
MaxId == 2          \* ids the mcp_servers autoincrement may hand out
MaxProcs == 2       \* requests that may be in flight at the same time
MaxToolId == 1      \* ids the custom_tools autoincrement may hand out

Procs == 1..MaxProcs
Ids == 1..MaxId

\* ----- request bodies (MCPIn) the clients send -----
\* url / command: "null" or a value; args / env / headers: "null", "empty"
\* (an empty list or dict) or "obj" (a non-empty list or dict).
InGoodHttp ==
    [transport |-> "streamable-http", url |-> "u", command |-> "null",
     args |-> "null", env |-> "null", headers |-> "obj", enabled |-> TRUE]
InSse ==
    [transport |-> "sse", url |-> "u", command |-> "null",
     args |-> "null", env |-> "null", headers |-> "null", enabled |-> TRUE]
InDisabled ==
    [transport |-> "streamable-http", url |-> "u", command |-> "null",
     args |-> "null", env |-> "null", headers |-> "null", enabled |-> FALSE]
InNoCommand ==
    [transport |-> "stdio", url |-> "null", command |-> "null",
     args |-> "null", env |-> "null", headers |-> "null", enabled |-> TRUE]
InEmptyArgs ==
    [transport |-> "stdio", url |-> "null", command |-> "c",
     args |-> "empty", env |-> "null", headers |-> "null", enabled |-> TRUE]
Inputs == {InGoodHttp, InSse, InDisabled, InNoCommand, InEmptyArgs}

\* ----- rows of mcp_servers (class MCPServer) -----
\* The JSON columns hold "null", "json" (a JSON text) or "garbage" (a text
\* that is not JSON); "empty" is a Python list/dict that was never encoded.
MCPServer(id, m) ==
    [id |-> id, transport |-> m.transport, url |-> m.url, command |-> m.command,
     args |-> m.args, env |-> m.env, headers |-> m.headers, enabled |-> m.enabled]

\* Rows the table may hold from an earlier run: a stdio server, and a row
\* whose args column was written by hand and is not JSON.
RowStdio ==
    [id |-> 1, transport |-> "stdio", url |-> "null", command |-> "c",
     args |-> "json", env |-> "json", headers |-> "null", enabled |-> TRUE]
RowGarbage ==
    [id |-> 1, transport |-> "stdio", url |-> "null", command |-> "c",
     args |-> "garbage", env |-> "null", headers |-> "null", enabled |-> TRUE]
\* The table as the process finds it when it starts.
InitStores == {<< >>, <<RowStdio>>, <<RowGarbage>>}

\* json.dumps guarded by truthiness (lines 236-241): only a non-empty value
\* is encoded; None and the empty list/dict are stored as they are.
DumpField(v) == IF v = "obj" THEN "json" ELSE v

ModelDump(m) ==
    [m EXCEPT !.args = DumpField(m.args), !.env = DumpField(m.env),
              !.headers = DumpField(m.headers)]

\* db.commit() of the insert (line 245): a String column accepts a text or
\* NULL; binding a Python list/dict raises.
CommitAccepts(r) ==
    /\ r.args # "empty"
    /\ r.env # "empty"
    /\ r.headers # "empty"

\* json.loads of a stored column (lines 159-161): "" and NULL are skipped.
JsonLoadsOk(v) == v # "garbage"

\* load_mcp_tools (lines 129-146): the result of building the client.
LoadMcpTools(cfg) ==
    IF cfg.transport = "stdio"
    THEN IF cfg.command = "null" THEN "construct" ELSE "ok"
    ELSE IF cfg.transport = "streamable-http"
         THEN "ok"
         ELSE "unsupported"

\* The body of the inner try up to the connect (lines 158-171).
Build(r) ==
    IF ~(JsonLoadsOk(r.args) /\ JsonLoadsOk(r.env) /\ JsonLoadsOk(r.headers))
    THEN "malformed"
    ELSE LoadMcpTools(r)

\* Whether the handshake of a built client can succeed (line 174): a client
\* built without its url has nothing to connect to.
CanConnect(r) == r.transport = "stdio" \/ r.url # "null"

\* Mutant of ListEnabled: the filter on enabled is lost.
ListAll(s) == s

\* Mutant of FilterEnabled: the rows come newest first.
RECURSIVE FilterEnabledDesc(_)
FilterEnabledDesc(s) ==
    IF s = << >> THEN << >>
    ELSE IF Head(s).enabled = TRUE
         THEN FilterEnabledDesc(Tail(s)) \o <<Head(s)>>
         ELSE FilterEnabledDesc(Tail(s))

RECURSIVE FilterEnabled(_)
FilterEnabled(s) ==
    IF s = << >> THEN << >>
    ELSE IF Head(s).enabled = TRUE
         THEN <<Head(s)>> \o FilterEnabled(Tail(s))
         ELSE FilterEnabled(Tail(s))

\* db.query(MCPServer).filter(MCPServer.enabled == True).all() (line 153)
ListEnabled(s) == FilterEnabled(s)

\* Mutant of RemoveId: the row is not removed.
RemoveNone(s, id) == s

RECURSIVE RemoveId(_, _)
RemoveId(s, id) ==
    IF s = << >> THEN << >>
    ELSE IF Head(s).id = id THEN RemoveId(Tail(s), id)
         ELSE <<Head(s)>> \o RemoveId(Tail(s), id)

StoreIds(s) == {s[i].id : i \in 1..Len(s)}

\* Mutants of SetTools: the new adapters are added to the old ones; an empty
\* result leaves the old adapters in place.
SetToolsMerge(old, new) == old \o new
SetToolsKeep(old, new) == IF new = << >> THEN old ELSE new

\* Mutant of SetTools: a non-empty installed list is never replaced.
SetToolsFirst(old, new) == IF old = << >> THEN new ELSE old

\* Mutant of SetTools: only adapters of descriptors that have none yet are
\* installed.
SetToolsNew(old, new) ==
    LET Fresh(t) == \A i \in 1..Len(old) : old[i].desc # t.desc
    IN SelectSeq(new, Fresh)

\* chat_agent.set_tools(tools) (line 182)
SetTools(old, new) == new

\* Mutant of Advance: a descriptor that fails to build ends the loop.
AdvanceAbort(snap, i, log) ==
    IF i > Len(snap) THEN [idx |-> i, log |-> log]
    ELSE LET r == Build(snap[i]) IN
         IF r = "ok" THEN [idx |-> i, log |-> log]
         ELSE [idx |-> Len(snap) + 1,
               log |-> Append(log, [desc |-> snap[i].id, res |-> r])]

\* The loop of lines 156-179 from index i up to the next await of connect():
\* descriptors that fail to build are logged and skipped without suspending.
RECURSIVE Advance(_, _, _)
Advance(snap, i, log) ==
    IF i > Len(snap) THEN [idx |-> i, log |-> log]
    ELSE LET r == Build(snap[i]) IN
         IF r = "ok" THEN [idx |-> i, log |-> log]
         ELSE Advance(snap, i + 1, Append(log, [desc |-> snap[i].id, res |-> r]))

VARIABLES
    phase,        \* "boot", "serving" or "crashed" (startup raised)
    store,        \* table mcp_servers, in row order
    nextId,       \* next autoincrement id of mcp_servers
    agentTools,   \* chat_agent.tools
    open,         \* number of connections that are open
    procs,        \* the calls of update_agent_tools in flight
    out,          \* the last response the server sent
    last,         \* the last call of update_agent_tools that ended
    started,      \* number of calls of update_agent_tools so far
    customTools,  \* ids of table custom_tools
    nextToolId,   \* next autoincrement id of custom_tools
    installedBy,  \* history: the call whose set_tools set agentTools
    deleted,      \* history: per id, the call its delete triggered (or 0)
    ret           \* history: the last create that returned with its server
                  \* connected

vars == <<phase, store, nextId, agentTools, open, procs, out, last, started,
          customTools, nextToolId, installedBy, deleted, ret>>

IdleProc ==
    [op |-> "none", pc |-> "idle", rowId |-> 0, num |-> 0, snap |-> << >>,
     idx |-> 0, tools |-> << >>, log |-> << >>, pass |-> "none"]

NoPass == [op |-> "none", rowId |-> 0, num |-> 0, snap |-> << >>,
           log |-> << >>, pass |-> "none", result |-> << >>, count |-> 0]

Response(op, status, id, warn, body) ==
    [op |-> op, status |-> status, id |-> id, warn |-> warn, body |-> body]

Init ==
    /\ phase = "boot"
    /\ store \in InitStores
    /\ nextId = Len(store) + 1
    /\ agentTools = << >>
    /\ open = 0
    /\ procs = [p \in Procs |-> IdleProc]
    /\ out = Response("none", 0, 0, FALSE, << >>)
    /\ last = NoPass
    /\ started = 0
    /\ customTools = {}
    /\ nextToolId = 1
    /\ installedBy = 0
    /\ deleted = [id \in Ids |-> 0]
    /\ ret = [id |-> 0, num |-> 0, started |-> 0]

SnapIds(snap) == [i \in 1..Len(snap) |-> snap[i].id]
Range(f) == {f[i] : i \in DOMAIN f}

\* ----- update_agent_tools (lines 148-186) -----
\* The pass of proc record pr from index i on, up to its next suspension or
\* to its end.  At the end the collected tools replace the agent's tools.
RunFrom(pr, i, log, tools, agent) ==
    LET a == Advance(pr.snap, i, log) IN
    IF a.idx > Len(pr.snap)
    THEN [proc |-> [pr EXCEPT !.idx = a.idx, !.log = a.log, !.tools = tools,
                              !.pc = "idle", !.pass = "done"],
          agent |-> SetTools(agent, tools)]
    ELSE [proc |-> [pr EXCEPT !.idx = a.idx, !.log = a.log, !.tools = tools,
                              !.pc = "connect", !.pass = "running"],
          agent |-> agent]

\* The values update_agent_tools hands to its caller, as a tuple: the function
\* has no return statement (lines 148-186), the caller gets None.
UpdateAgentToolsReturn(tools, log) == << >>

\* Mutant of PrintedCount: the rows of the log are counted.
PrintedCountLog(tools, log) == Len(log)

\* The number in "Updated agent with N MCP tools" (line 183); the lines
\* "Successfully loaded" (176) and "Failed to load" (179) are the log.
PrintedCount(tools, log) == Len(tools)

\* Mutant of BeginPass: a failed read installs the empty list.
BeginPassClear(pr, readOk, st, agent) ==
    IF ~readOk
    THEN [proc |-> [pr EXCEPT !.pc = "idle", !.pass = "store_error"],
          agent |-> << >>]
    ELSE RunFrom([pr EXCEPT !.snap = ListEnabled(st)], 1, << >>, << >>, agent)

\* Mutant of BeginPass: the rows are read as they were before the commit of
\* the request.
BeginPassBeforeCommit(pr, readOk, st, agent) ==
    IF ~readOk
    THEN [proc |-> [pr EXCEPT !.pc = "idle", !.pass = "store_error"],
          agent |-> agent]
    ELSE RunFrom([pr EXCEPT !.snap = ListEnabled(store)], 1, << >>, << >>,
                 agent)

\* The start of a pass: the query of line 153 on table st either raises
\* (readOk = FALSE), and the exception leaves update_agent_tools through the
\* finally of line 185, or returns the enabled rows.
BeginPass(pr, readOk, st, agent) ==
    IF ~readOk
    THEN [proc |-> [pr EXCEPT !.pc = "idle", !.pass = "store_error"],
          agent |-> agent]
    ELSE RunFrom([pr EXCEPT !.snap = ListEnabled(st)], 1, << >>, << >>, agent)

\* Mutant of NotFound: a request for a row that does not exist is answered
\* as done.
NotFoundOk(op, id) == Response(op, 200, id, FALSE, << >>)

\* raise HTTPException(status_code=404, ...) of delete_mcp (line 281) and
\* delete_tool (line 344)
NotFound(op, id) == Response(op, 404, id, FALSE, << >>)

\* Mutant of CreateResponse: a failed reload fails the create.
CreateResponseFail(pass, id) ==
    IF pass = "done"
    THEN [op |-> "create", status |-> 200, id |-> id, warn |-> FALSE,
          body |-> << >>]
    ELSE [op |-> "create", status |-> 500, id |-> 0, warn |-> FALSE,
          body |-> << >>]

\* What the caller of update_agent_tools sends when the call is over:
\* create_mcp catches the exception, prints a warning and returns the row
\* (lines 266-271); delete_mcp lets it propagate (line 286) or returns ok
\* (line 288).
CreateResponse(pass, id) ==
    Response("create", 200, id, pass = "store_error", << >>)

DeleteResponse(pass, id) ==
    IF pass = "done"
    THEN Response("delete", 200, id, FALSE, << >>)
    ELSE Response("delete", 500, id, FALSE, << >>)

\* startup_event (lines 112-116): an exception of the hook aborts startup.
StartupPhase(pass) == IF pass = "done" THEN "serving" ELSE "crashed"

\* The state after a step of a pass whose result is r: a suspended pass stays
\* in its slot, a pass that is over hands control back to its caller.
Continue(p, r) ==
    /\ agentTools' = r.agent
    /\ IF r.proc.pc = "connect"
       THEN /\ procs' = [procs EXCEPT ![p] = r.proc]
            /\ UNCHANGED <<out, last, phase, installedBy, ret>>
       ELSE /\ procs' = [procs EXCEPT ![p] = IdleProc]
            /\ last' = [op |-> r.proc.op, rowId |-> r.proc.rowId,
                        num |-> r.proc.num, snap |-> r.proc.snap,
                        log |-> r.proc.log, pass |-> r.proc.pass,
                        result |-> UpdateAgentToolsReturn(r.proc.tools,
                                                          r.proc.log),
                        count |-> IF r.proc.pass = "done"
                                  THEN PrintedCount(r.proc.tools, r.proc.log)
                                  ELSE 0]
            /\ installedBy' = IF r.proc.pass = "done" THEN r.proc.num
                              ELSE installedBy
            /\ ret' = IF /\ r.proc.op = "create"
                         /\ [desc |-> r.proc.rowId, res |-> "ok"]
                               \in Range(r.proc.log)
                      THEN [id |-> r.proc.rowId, num |-> r.proc.num,
                            started |-> started']
                      ELSE ret
            /\ out' = IF r.proc.op = "create"
                      THEN CreateResponse(r.proc.pass, r.proc.rowId)
                      ELSE IF r.proc.op = "delete"
                           THEN DeleteResponse(r.proc.pass, r.proc.rowId)
                           ELSE out
            /\ phase' = IF r.proc.op = "startup"
                        THEN StartupPhase(r.proc.pass)
                        ELSE phase

\* The slot a new request runs in.
FreeSlot(p) ==
    /\ procs[p].pc = "idle"
    /\ \A q \in Procs : q < p => procs[q].pc # "idle"

\* ----- actions -----
Startup ==
    /\ phase = "boot"
    /\ started = 0
    /\ started' = started + 1
    /\ \E readOk \in BOOLEAN :
         Continue(1, BeginPass([IdleProc EXCEPT !.op = "startup",
                                                !.num = started'],
                               readOk, store, agentTools))
    /\ UNCHANGED <<store, nextId, open, customTools, nextToolId, deleted>>

\* Mutant of OpenAfter: the adapters a replace supersedes are closed.
OpenAfterClose(n, ok, superseded) == (IF ok THEN n + 1 ELSE n) - superseded

\* The number of open connections after a handshake (line 174) and the rest
\* of the step: a successful connect opens one, and lines 173-183 close
\* nothing, also not the adapters that set_tools supersedes.
OpenAfter(n, ok, superseded) == IF ok THEN n + 1 ELSE n

\* The handshake of line 174 of pass p is over, with or without success;
\* the pass runs on to its next handshake or to set_tools.
ConnectReturn(p) ==
    /\ procs[p].pc = "connect"
    /\ UNCHANGED <<store, nextId, started, customTools, nextToolId, deleted>>
    /\ LET pr == procs[p]
           row == pr.snap[pr.idx] IN
       \E ok \in (IF CanConnect(row) THEN BOOLEAN ELSE {FALSE}) :
         LET tool == [desc |-> row.id, pass |-> pr.num]
             tools == IF ok THEN Append(pr.tools, tool) ELSE pr.tools
             log == Append(pr.log, [desc |-> row.id,
                                    res |-> IF ok THEN "ok" ELSE "connect"])
             r == RunFrom(pr, pr.idx + 1, log, tools, agentTools) IN
         /\ open' = OpenAfter(open, ok, IF r.proc.pc = "connect" THEN 0
                                        ELSE Len(agentTools))
         /\ Continue(p, r)

\* create_mcp (lines 231-274)
CreateMcp(p, m) ==
    /\ phase = "serving"
    /\ FreeSlot(p)
    /\ nextId <= MaxId
    /\ LET row == MCPServer(nextId, ModelDump(m)) IN
       IF ~CommitAccepts(row)
       THEN /\ out' = Response("create", 500, 0, FALSE, << >>)
            /\ UNCHANGED <<store, nextId, agentTools, started, procs, last,
                           phase, installedBy, ret>>
       ELSE /\ store' = Append(store, row)
            /\ nextId' = nextId + 1
            /\ started' = started + 1
            /\ \E readOk \in BOOLEAN :
                 Continue(p, BeginPass([IdleProc EXCEPT !.op = "create",
                                                        !.rowId = nextId,
                                                        !.num = started'],
                                       readOk, store', agentTools))
    /\ UNCHANGED <<open, customTools, nextToolId, deleted>>

\* Mutant of DeleteMcp: the tools are not reloaded after the deletion.
DeleteMcpNoReload(p, id) ==
    /\ phase = "serving"
    /\ FreeSlot(p)
    /\ IF id \notin StoreIds(store)
       THEN /\ out' = [op |-> "delete", status |-> 404, id |-> id,
                       warn |-> FALSE, body |-> << >>]
            /\ UNCHANGED <<store, deleted>>
       ELSE /\ store' = RemoveId(store, id)
            /\ deleted' = [deleted EXCEPT ![id] = started]
            /\ out' = [op |-> "delete", status |-> 200, id |-> id,
                       warn |-> FALSE, body |-> << >>]
    /\ UNCHANGED <<phase, nextId, agentTools, open, procs, last, started,
                   customTools, nextToolId, installedBy, ret>>

\* delete_mcp (lines 277-288)
DeleteMcp(p, id) ==
    /\ phase = "serving"
    /\ FreeSlot(p)
    /\ IF id \notin StoreIds(store)
       THEN /\ out' = NotFound("delete", id)
            /\ UNCHANGED <<store, agentTools, started, procs, last, phase,
                           installedBy, ret, deleted>>
       ELSE /\ store' = RemoveId(store, id)
            /\ started' = started + 1
            /\ deleted' = [deleted EXCEPT ![id] = started']
            /\ \E readOk \in BOOLEAN :
                 Continue(p, BeginPass([IdleProc EXCEPT !.op = "delete",
                                                        !.rowId = id,
                                                        !.num = started'],
                                       readOk, store', agentTools))
    /\ UNCHANGED <<nextId, open, customTools, nextToolId>>

\* Mutant of Functions: the adapter shows no functions.
FunctionsNone(tool) == << >>

\* tool.functions of a connected adapter: the catalog of its server, here
\* one tool per server, named after the descriptor.
Functions(tool) == <<tool.desc>>

\* Mutant of Catalog: the last adapter is left out.
RECURSIVE CatalogShort(_)
CatalogShort(tools) ==
    IF Len(tools) <= 1 THEN << >>
    ELSE Functions(Head(tools)) \o CatalogShort(Tail(tools))

RECURSIVE Catalog(_)
Catalog(tools) ==
    IF tools = << >> THEN << >>
    ELSE Functions(Head(tools)) \o Catalog(Tail(tools))

\* get_available_tools (lines 291-310)
GetAvailableTools ==
    /\ phase = "serving"
    /\ out' = Response("tools", 200, 0, FALSE, Catalog(agentTools))
    /\ UNCHANGED <<phase, store, nextId, agentTools, open, procs, last,
                   started, customTools, nextToolId, installedBy, deleted, ret>>

\* list_mcps (lines 208-228): the decoded columns live in the request's
\* session only and are never committed.
ListMcps ==
    /\ phase = "serving"
    /\ out' = Response("mcps", 200, 0, FALSE, SnapIds(store))
    /\ UNCHANGED <<phase, store, nextId, agentTools, open, procs, last,
                   started, customTools, nextToolId, installedBy, deleted, ret>>

\* list_tools (lines 326-328)
ListTools ==
    /\ phase = "serving"
    /\ out' = Response("customtools", 200, 0, FALSE,
                       [i \in 1..Cardinality(customTools) |-> 0])
    /\ UNCHANGED <<phase, store, nextId, agentTools, open, procs, last,
                   started, customTools, nextToolId, installedBy, deleted, ret>>

\* create_tool (lines 331-337)
CreateTool ==
    /\ phase = "serving"
    /\ nextToolId <= MaxToolId
    /\ customTools' = customTools \cup {nextToolId}
    /\ nextToolId' = nextToolId + 1
    /\ out' = Response("createtool", 200, nextToolId, FALSE, << >>)
    /\ UNCHANGED <<phase, store, nextId, agentTools, open, procs, last,
                   started, installedBy, deleted, ret>>

\* delete_tool (lines 340-347)
DeleteTool(id) ==
    /\ phase = "serving"
    /\ IF id \in customTools
       THEN /\ customTools' = customTools \ {id}
            /\ out' = Response("deletetool", 200, id, FALSE, << >>)
       ELSE /\ out' = NotFound("deletetool", id)
            /\ UNCHANGED customTools
    /\ UNCHANGED <<phase, store, nextId, agentTools, open, procs, last,
                   started, nextToolId, installedBy, deleted, ret>>

Next ==
    \/ Startup
    \/ \E p \in Procs : ConnectReturn(p)
    \/ \E p \in Procs, m \in Inputs : CreateMcp(p, m)
    \/ \E p \in Procs, id \in Ids : DeleteMcp(p, id)
    \/ GetAvailableTools

Spec == Init /\ [][Next]_vars

NextApi ==
    \/ Next
    \/ ListMcps
    \/ ListTools
    \/ CreateTool
    \/ \E id \in 1..MaxToolId : DeleteTool(id)

SpecApi == Init /\ [][NextApi]_vars

TypeOK ==
    /\ phase \in {"boot", "serving", "crashed"}
    /\ nextId \in 1..(MaxId + 1)
    /\ StoreIds(store) \subseteq 1..(nextId - 1)

\* ----- properties -----
Descs(tools) == [i \in 1..Len(tools) |-> tools[i].desc]
IsOk(e) == e.res = "ok"
OkDescs(log) == Descs(SelectSeq(log, IsOk))
Installed(d) == \E i \in 1..Len(agentTools) : agentTools[i].desc = d

\* The log of an ended pass has one entry per row of its snapshot, in order,
\* and the entry says what happened to that row.
Attempted(pass) ==
    /\ Len(pass.log) = Len(pass.snap)
    /\ \A i \in 1..Len(pass.snap) :
         /\ pass.log[i].desc = pass.snap[i].id
         /\ IF Build(pass.snap[i]) = "ok"
            THEN pass.log[i].res \in {"ok", "connect"}
            ELSE pass.log[i].res = Build(pass.snap[i])

\* C1: fault isolation per descriptor.  When the agent's tools are those of
\* the last pass that ended, that pass attempted every enabled descriptor of
\* its snapshot, whatever failed before it, and the installed set holds an
\* adapter for exactly the descriptors that built and connected.
FaultIsolation ==
    (last.pass = "done" /\ installedBy = last.num) =>
        /\ Attempted(last)
        /\ Descs(agentTools) = OkDescs(last.log)
        /\ \A i \in 1..Len(last.log) :
             Installed(last.log[i].desc) <=> last.log[i].res = "ok"

\* A pass over two descriptors or more in which an unsupported transport came
\* first and a later descriptor was installed all the same.
FaultIsolationWitness ==
    /\ last.pass = "done"
    /\ installedBy = last.num
    /\ \E i, j \in 1..Len(last.log) :
         /\ i < j
         /\ last.log[i].res = "unsupported"
         /\ last.log[j].res = "ok"
         /\ Installed(last.log[j].desc)
         /\ ~Installed(last.log[i].desc)

\* C2: the agent's tools are replaced as a whole.  No adapter of a pass that
\* is suspended at a handshake is among the agent's tools, all the agent's
\* tools come from the one pass that installed them, and the tools change only
\* in the step that ends a pass, to the complete result of that pass.
NoPartialSet ==
    /\ \A i \in 1..Len(agentTools) : agentTools[i].pass = installedBy
    /\ \A p \in Procs :
         procs[p].pc = "connect" =>
            /\ procs[p].num # installedBy
            /\ \A i \in 1..Len(agentTools) : agentTools[i] \notin Range(procs[p].tools)

ReplaceStep ==
    /\ NoPartialSet'
    /\ agentTools' # agentTools =>
          /\ last' # last
          /\ last'.pass = "done"
          /\ installedBy' = last'.num
          /\ Attempted(last')
          /\ Descs(agentTools') = OkDescs(last'.log)
          /\ \A i \in 1..Len(agentTools') : agentTools'[i].pass = last'.num

AtomicReplace == [][ReplaceStep]_vars

\* A pass is suspended at a handshake with one adapter already built while
\* the agent holds the adapters of an earlier pass.
AtomicReplaceWitness ==
    \E p \in Procs :
        /\ procs[p].pc = "connect"
        /\ Len(procs[p].tools) >= 1
        /\ Len(agentTools) >= 1

\* C3: a stored descriptor with enabled = false has no adapter among the
\* agent's tools, nor among the tools a pass in flight has collected.
DisabledNeverInstalled ==
    \A i \in 1..Len(store) :
        store[i].enabled = FALSE =>
            /\ ~Installed(store[i].id)
            /\ \A p \in Procs : store[i].id \notin Range(Descs(procs[p].tools))

\* A disabled descriptor was created, its pass ended and installed the
\* adapter of another descriptor.
DisabledNeverInstalledWitness ==
    /\ last.op = "create"
    /\ last.pass = "done"
    /\ installedBy = last.num
    /\ Len(agentTools) >= 1
    /\ \E i \in 1..Len(store) :
         store[i].id = last.rowId /\ store[i].enabled = FALSE

\* C4: a pass whose read of the enabled descriptors fails ends without a
\* replace: the agent's tools are what they were, and the caller gets the
\* error (startup aborts, delete_mcp fails, create_mcp prints its warning).
StoreErrorStep ==
    (last' # last /\ last'.pass = "store_error") =>
        /\ agentTools' = agentTools
        /\ installedBy' = installedBy
        /\ last'.log = << >>
        /\ last'.op = "startup" => phase' = "crashed"
        /\ last'.op = "delete" => out'.status = 500
        /\ last'.op = "create" => out'.warn = TRUE

StoreErrorKeepsTools == [][StoreErrorStep]_vars

\* The read of the pass of a delete failed, and the adapter of the deleted
\* descriptor is still installed.
StoreErrorKeepsToolsWitness ==
    /\ last.op = "delete"
    /\ last.pass = "store_error"
    /\ Installed(last.rowId)

\* C5: a pass whose read succeeds never raises: it ends with the replace,
\* to exactly the adapters it connected; when nothing was enabled or nothing
\* connected, the agent's tools become empty.
PassEndsStep ==
    (last' # last /\ last'.pass # "store_error") =>
        /\ last'.pass = "done"
        /\ installedBy' = last'.num
        /\ Descs(agentTools') = OkDescs(last'.log)
        /\ OkDescs(last'.log) = << >> => agentTools' = << >>
        /\ last'.op = "startup" => phase' = "serving"
        /\ last'.op \in {"create", "delete"} =>
              out'.status = 200 /\ out'.warn = FALSE

AlwaysInstalls == [][PassEndsStep]_vars

\* A pass in which every enabled descriptor failed ended after an adapter had
\* been connected by an earlier pass: the agent's tools are empty.
AlwaysInstallsWitness ==
    /\ last.pass = "done"
    /\ installedBy = last.num
    /\ Len(last.snap) >= 1
    /\ OkDescs(last.log) = << >>
    /\ open >= 1
    /\ agentTools = << >>

\* C6: update_agent_tools is called once by startup, before any request is
\* served, once in the step that commits a created row and once in the step
\* that commits a deletion, and the pass it starts reads the table as the
\* commit left it.  No other step calls it.
NewPassReads(n, st) ==
    \/ \E p \in Procs :
          /\ procs'[p].num = n
          /\ procs'[p].pc = "connect"
          /\ procs'[p].snap = ListEnabled(st)
    \/ /\ last'.num = n
       /\ last'.pass = "done" => last'.snap = ListEnabled(st)

TriggerStep ==
    /\ started' \in {started, started + 1}
    /\ store' # store => started' = started + 1
    /\ started' # started => (store' # store \/ phase = "boot")
    /\ started' # started => NewPassReads(started', store')
    /\ phase = "boot" => started' <= 1
    /\ phase' # "boot" => started' >= 1

ChangeTriggers == [][TriggerStep]_vars

\* Startup, a create and a delete have each started one pass, and a listing
\* and a custom-tool request have been served without starting one.
ChangeTriggersWitness ==
    /\ started = 3
    /\ last.op = "delete"
    /\ last.num = 3
    /\ nextId = 2
    /\ customTools # {}
    /\ out.op = "mcps"

\* C7: the step that ends the pass of a create returns the created row with
\* status 200 and takes no row out of the table; when the read of the pass
\* failed the response carries the warning and the row is in the table.
CreateReturnStep ==
    (last' # last /\ last'.op = "create") =>
        /\ out'.op = "create"
        /\ out'.status = 200
        /\ out'.id = last'.rowId
        /\ out'.warn = (last'.pass = "store_error")
        /\ StoreIds(store) \subseteq StoreIds(store')
        /\ last'.pass = "store_error" => last'.rowId \in StoreIds(store')

CreateSurvivesReload == [][CreateReturnStep]_vars

\* A create returned its row with a warning: the read of its pass failed and
\* the row is in the table.
CreateSurvivesReloadWitness ==
    /\ out.op = "create"
    /\ out.status = 200
    /\ out.warn = TRUE
    /\ last.op = "create"
    /\ last.pass = "store_error"
    /\ out.id = last.rowId
    /\ out.id \in StoreIds(store)

\* C8: the step that ends the pass of a delete returns status 200 and the
\* row is not in the table, also when the read of the pass failed.
DeleteReturnStep ==
    (last' # last /\ last'.op = "delete") =>
        /\ out'.op = "delete"
        /\ out'.status = 200
        /\ last'.rowId \notin StoreIds(store')

DeleteSurvivesReload == [][DeleteReturnStep]_vars

ReadListsCreated ==
    (/\ out.op = "tools"
     /\ ret.id \in StoreIds(store)
     /\ started = ret.started
     /\ [desc |-> ret.id, res |-> "connect"] \notin Range(last.log)) =>
        ret.id \in Range(out.body)

\* C10 as amended: the read lists the tool as long as the agent's tools are
\* those the pass of the create installed.
ReadListsCreatedUnlessReplaced ==
    (out.op = "tools" /\ ret.id # 0 /\ installedBy = ret.num) =>
        ret.id \in Range(out.body)

\* A read was served after a create returned, the tools of the create's pass
\* still installed, and lists the created descriptor's tool.
ReadListsCreatedWitness ==
    /\ out.op = "tools"
    /\ ret.id # 0
    /\ installedBy = ret.num
    /\ ret.id \in Range(out.body)

\* C11: idempotence.  When a pass ends after the pass whose adapters are
\* installed, with the same snapshot and the same outcome for each descriptor,
\* it installs adapters for the same descriptors in the same order, and every
\* one of them is a new adapter.
SamePassAgain ==
    /\ last' # last
    /\ last'.pass = "done"
    /\ last.pass = "done"
    /\ installedBy = last.num
    /\ last'.snap = last.snap
    /\ last'.log = last.log

IdempotentStep ==
    SamePassAgain =>
        /\ Descs(agentTools') = Descs(agentTools)
        /\ \A i \in 1..Len(agentTools') :
             agentTools'[i] \notin Range(agentTools)

Idempotent == [][IdempotentStep]_vars

\* The pass of the create of a disabled descriptor read the snapshot the
\* startup pass had read, and connected the same server a second time.
IdempotentWitness ==
    /\ last.op = "create"
    /\ last.pass = "done"
    /\ last.num = 2
    /\ installedBy = 2
    /\ last.snap = <<RowStdio>>
    /\ Len(agentTools) = 1
    /\ open = 2

\* The transport kinds and the field each one needs.
RecognizedKinds == {"stdio", "streamable-http", "sse"}

HasRequired(r) ==
    IF r.transport = "stdio" THEN r.command # "null" ELSE r.url # "null"

\* C12: transport selection.  For every stored descriptor load_mcp_tools
\* builds a client when the kind is stdio, streamable-http or sse and the
\* field the kind needs is present, and it fails as unsupported exactly when
\* the kind is none of the three.
TransportSelection ==
    \A i \in 1..Len(store) :
        /\ (store[i].transport \in RecognizedKinds /\ HasRequired(store[i]))
               => LoadMcpTools(store[i]) = "ok"
        /\ (LoadMcpTools(store[i]) = "unsupported")
               <=> (store[i].transport \notin RecognizedKinds)

\* C13: data-model invariant.  Every descriptor in the store has the field
\* its transport kind needs: the command for stdio, the url for the others.
RequiredFieldsPresent ==
    \A i \in 1..Len(store) : HasRequired(store[i])

EnabledIds(s) == {s[i].id : i \in {j \in 1..Len(s) : s[j].enabled = TRUE}}

\* A step in which a tools-available read answers.
ReadStep == out' # out /\ out'.op = "tools"

\* C14 as stated: the tools a catalog read lists are tools of descriptors that
\* are enabled in the store at the time of the read.
ReadFollowsStoreStep ==
    ReadStep => Range(out'.body) \subseteq EnabledIds(store)

ReadFollowsStore == [][ReadFollowsStoreStep]_vars

\* C14, amended: a catalog read lists the functions of the adapters installed
\* on the agent, in their order; it opens no connection and touches neither
\* the store nor the installed set.
ReadUsesInstalledStep ==
    ReadStep =>
        /\ out'.body = Descs(agentTools)
        /\ open' = open
        /\ UNCHANGED <<store, agentTools, procs, started>>

ReadUsesInstalled == [][ReadUsesInstalledStep]_vars

\* A read that followed a delete whose pass could not read the store: it lists
\* the tools of the deleted descriptor, which is still installed.
ReadUsesInstalledWitness ==
    /\ out.op = "tools"
    /\ last.op = "delete"
    /\ last.pass = "store_error"
    /\ last.rowId \in Range(out.body)
    /\ last.rowId \notin StoreIds(store)

IsFailed(e) == e.res # "ok"
Failures(log) == SelectSeq(log, IsFailed)

\* C15 as stated: an ended pass hands its caller the number of adapters it
\* installed and the list of its failures, one entry per failed descriptor.
ReconcileReturns ==
    (last.pass = "done") =>
        /\ Len(last.result) = 2
        /\ last.result[1] = Len(OkDescs(last.log))
        /\ last.result[2] = Failures(last.log)

\* C15, amended: an ended pass hands nothing to its caller; it prints the
\* number of adapters it installed, and one failure line for every enabled
\* descriptor of its snapshot that has no adapter.
ReportsByPrint ==
    (last.pass = "done") =>
        /\ last.result = << >>
        /\ last.count = Len(OkDescs(last.log))
        /\ (installedBy = last.num => last.count = Len(agentTools))
        /\ last.count + Len(Failures(last.log)) = Len(last.snap)
        /\ \A i \in 1..Len(last.snap) :
             IsFailed(last.log[i]) <=> ~Installed(last.snap[i].id)

\* A pass over a stdio descriptor that connected and an http descriptor whose
\* server could not be reached: it prints 1 and one failure.
ReportsByPrintWitness ==
    /\ last.pass = "done"
    /\ Len(last.snap) = 2
    /\ last.snap[1].transport = "stdio"
    /\ last.snap[2].transport = "streamable-http"
    /\ last.count = 1
    /\ last.log[1].res = "ok"
    /\ last.log[2].res = "connect"

\* C16: passes are not serialized and the last replace wins.  Whatever passes
\* overlapped, once the pass that ended last has replaced the tool set, the
\* installed adapters are the ones that pass built, whether or not it was the
\* last to read the store.
LastReplaceWins ==
    (last.pass = "done") =>
        /\ installedBy = last.num
        /\ \A i \in 1..Len(agentTools) : agentTools[i].pass = last.num
        /\ Descs(agentTools) = OkDescs(last.log)

\* Two passes were suspended at connect at the same time: the pass of the
\* create of row 1 read the store first and ended last, after the later pass
\* had connected a server and replaced the tool set; the adapters installed
\* are those of the create's pass.
LastReplaceWinsWitness ==
    /\ \A p \in Procs : procs[p].pc = "idle"
    /\ last.pass = "done"
    /\ last.op = "create"
    /\ last.rowId = 1
    /\ last.num = 2
    /\ started = 3
    /\ open = 2
    /\ installedBy = 2
    /\ agentTools # << >>

\* The rows of a snapshot are in the row order of the table: ascending ids.
InRowOrder(ids) == \A i, j \in 1..Len(ids) : i < j => ids[i] < ids[j]

\* The rows a pass has handled so far are the first rows of its snapshot, each
\* one once, and its adapters are those of the rows that connected.
HandledInOrder(pr) ==
    /\ InRowOrder(SnapIds(pr.snap))
    /\ Len(pr.log) <= Len(pr.snap)
    /\ Descs(pr.log) = SnapIds(SubSeq(pr.snap, 1, Len(pr.log)))
    /\ Descs(pr.tools) = OkDescs(pr.log)

\* C17: within a pass the builder runs once for each enabled descriptor of
\* the snapshot, one after the other in row order; the installed set holds at
\* most one adapter per descriptor, in snapshot order restricted to the
\* descriptors that succeeded.
OncePerDescriptor ==
    /\ \A p \in Procs :
         procs[p].pc = "connect" =>
             /\ HandledInOrder(procs[p])
             /\ procs[p].idx = Len(procs[p].log) + 1
    /\ last.pass = "done" =>
             /\ InRowOrder(SnapIds(last.snap))
             /\ Descs(last.log) = SnapIds(last.snap)
    /\ InRowOrder(Descs(agentTools))

\* A pass over two enabled descriptors connected both, one after the other,
\* and its two adapters are installed in row order.
OncePerDescriptorWitness ==
    /\ last.pass = "done"
    /\ Len(last.snap) = 2
    /\ installedBy = last.num
    /\ Descs(agentTools) = <<1, 2>>

\* The adapters pass p holds after a step: its list while it is suspended,
\* the installed list once it has ended.
ToolsAfter(p) ==
    IF procs'[p].pc = "connect" THEN procs'[p].tools ELSE agentTools'

\* C18: no operation disconnects an adapter.  The number of open connections
\* never decreases; it grows by one in the step of each successful connect
\* of a pass, replace included, and in no other step.
NoDisconnectStep ==
    /\ open' >= open
    /\ \A p \in Procs :
         (procs[p].pc = "connect" /\ procs'[p] # procs[p]) =>
             open' - open = Len(ToolsAfter(p)) - Len(procs[p].tools)
    /\ (\A p \in Procs : procs[p].pc = "connect" => procs'[p] = procs[p])
           => open' = open

NoDisconnect == [][NoDisconnectStep]_vars

\* Two connections are open and belong to no installed adapter and to no
\* pass: their descriptors were deleted and the tool set replaced.
NoDisconnectWitness ==
    /\ open >= 2
    /\ agentTools = << >>
    /\ store = << >>
    /\ last.pass = "done"
    /\ \A p \in Procs : procs[p].pc = "idle"

Quiescent == \A p \in Procs : procs[p].pc = "idle"

InstalledFromStore ==
    \A i \in 1..Len(agentTools) : agentTools[i].desc \in EnabledIds(store)

\* C19 as stated: when no pass is in progress and at least one pass has
\* replaced the tool set, every installed adapter was built from a descriptor
\* that is in the store and enabled.
QuiescentConsistency ==
    (Quiescent /\ installedBy >= 1) => InstalledFromStore

\* C19, amended: the same, when the pass that replaced last is also the pass
\* that started last.
QuiescentConsistencyOfLatest ==
    (Quiescent /\ installedBy >= 1 /\ installedBy = started)
        => InstalledFromStore

\* The pass of a delete that overlapped nothing has ended: the other
\* descriptor is installed, the deleted one is not.
QuiescentConsistencyWitness ==
    /\ Quiescent
    /\ last.pass = "done"
    /\ last.op = "delete"
    /\ installedBy = started
    /\ agentTools # << >>
    /\ last.rowId \notin StoreIds(store)

\* A step in which a delete request is answered at once, without the end of
\* a pass.
PassEnds == \E p \in Procs : procs[p].pc = "connect" /\ procs'[p].pc # "connect"

DeleteAnswered == out' # out /\ out'.op = "delete" /\ ~PassEnds

\* C20: a delete of an id that is not in the store is answered 404 and has no
\* effect: the store and the tool set are unchanged and no pass is started;
\* and 404 is the answer to such deletes only.
DeleteMissingStep ==
    /\ (DeleteAnswered /\ out'.id \notin StoreIds(store)) =>
           /\ out'.status = 404
           /\ UNCHANGED <<store, nextId, agentTools, open, procs, last,
                          started, installedBy, deleted>>
    /\ (DeleteAnswered /\ out'.status = 404) => out'.id \notin StoreIds(store)

DeleteMissing == [][DeleteMissingStep]_vars

\* A delete was answered 404 while a descriptor is stored and installed.
DeleteMissingWitness ==
    /\ out.op = "delete"
    /\ out.status = 404
    /\ out.id \notin StoreIds(store)
    /\ store # << >>
    /\ agentTools # << >>
====
